---------------------------- MODULE Spec2Model ----------------------------
(***************************************************************************)
(* Model of the chat hook useChat of the HR assistant frontend, in its two *)
(* versions: the agent version (frontend/src/contexts/AuthContext.tsx,     *)
(* lines 103-189) and the retrieval version (unnamed/part_005).            *)
(* Around it: the ChatInput component and its wiring in ChatPage, the      *)
(* AuthProvider with the login and settings pages that call it, and the    *)
(* employee detail sheet of EmployeesPage.                                 *)
(*                                                                         *)
(* Granularity.  JavaScript runs one task at a time: an event handler or a *)
(* network completion runs together with the promise continuations it      *)
(* makes runnable before any other handler or completion starts.  One      *)
(* action is one such task: a call of sendMessage up to its first network  *)
(* await, a call of clearMessages, or the settling of one network request  *)
(* together with the code that follows the await.  React applies the       *)
(* queued setMessages updaters in the order they were queued, so the       *)
(* state variables hold the value the next render shows.                   *)
(*                                                                         *)
(* Strings are sequences of tokens, a token being a character or a fixed   *)
(* piece of text; string concatenation is \o.                              *)
(***************************************************************************)
EXTENDS Integers, Sequences, FiniteSets, TLC

(* Bounds of the model. *)
MaxSends == 2
MaxRagSends == 1
MaxInputSends == 2
MaxOtherMessages == 1
MaxClicks == 2

VARIABLES
    mode,                \* which version of useChat is deployed
    messages,            \* useState<ChatMessage[]>
    isLoading,           \* useState(false)
    conversationIdRef,   \* useRef<string | null>(null).current (agent version)
    messageIdCounter,    \* module-level counter read by nextId
    calls,               \* the sendMessage invocations, in call order
    now,                 \* the clock read by Date.now() and new Date()
    serverConversations, \* conversations the backend has created
    cleared,             \* the latest task was a call of clearMessages
    otherMessages,       \* the messages of a second useChat instance of the module
    \* ChatInput (unnamed/part_000)
    value,               \* useState("")
    disabled,            \* the prop disabled as last rendered
    sent,                \* the arguments of the calls of onSend, in order
    submitted,           \* the latest task was a submit event
    \* AuthProvider (frontend/src/contexts/AuthContext.tsx, lines 43-92)
    token,               \* useState<string | null>
    user,                \* useState<User | null>
    org,                 \* useState<Org | null>
    localStorage,        \* the keys access_token, user and org
    attempt,             \* LoginPage / RegisterPage handleSubmit in progress
    save,                \* SettingsPage handleSave in progress
    \* EmployeesPage (unnamed/part_004)
    sheetOpen,
    selectedEmployeeId,
    employeeDetail,
    detailLoading,
    detailError,
    fetches              \* the calls of fetchEmployeeDetail, in call order

hookVars == <<mode, messages, isLoading, conversationIdRef, messageIdCounter,
              calls, now, serverConversations, cleared>>
inputVars == <<value, disabled, sent, submitted>>
authVars == <<token, user, org, localStorage, attempt, save>>
employeeVars == <<sheetOpen, selectedEmployeeId, employeeDetail, detailLoading,
                  detailError, fetches>>

vars == <<hookVars, otherMessages, inputVars, authVars, employeeVars>>

-----------------------------------------------------------------------------
(* JavaScript values *)

NULL == <<>>
Null == [t |-> "null"]
Undefined == [t |-> "undefined"]
Arr(s) == [t |-> "array", v |-> s]

\* a ?? b
Coalesce(a, b) == IF a.t \in {"null", "undefined"} THEN b ELSE a

\* truthiness of a string | null
Truthy(x) == x # NULL

-----------------------------------------------------------------------------
(* Inputs *)

\* the instants Date.now() can return during a run
Clock == {0, 1}

\* what a caller may pass to sendMessage
Questions == { <<" ", "a">>, <<" ">> }

ToolCallA == [tool |-> "get_leave_balance", arguments |-> "args1", result |-> "res1"]
ToolCallB == [tool |-> "search_policies", arguments |-> "args2", result |-> "res2"]

\* bodies the backend may answer POST /v1/chat/message with
AgentData ==
    { [response |-> <<"r1">>, tool_calls |-> Null],
      [response |-> <<"r2">>, tool_calls |-> Arr(<<>>)],
      [response |-> <<"r3">>, tool_calls |-> Arr(<<ToolCallB, ToolCallA>>)] }

\* a retrieved passage; similarity is in thousandths
Chunk(text, sim) == [chunk_text |-> text, similarity |-> sim]

\* bodies the backend may answer POST /v1/rag/query with
RagData ==
    { [results |-> <<>>],
      [results |-> <<Chunk(<<"p1">>, 910)>>],
      [results |-> <<Chunk(<<"p1">>, 285), Chunk(<<"p2">>, 910),
                     Chunk(<<"p3">>, 285), Chunk(<<"p4">>, 125)>>] }

\* passages the retriever may return: two of equal similarity, one whose
\* similarity * 100 is exactly 12.5, one with text of several tokens
RagChunks ==
    { Chunk(<<"p1">>, 285), Chunk(<<"p2", " ", "x">>, 910),
      Chunk(<<"p3">>, 285), Chunk(<<"p4">>, 125) }

\* the question asked of the retriever
RagQuestions == { <<"a">> }

\* the result lists the retriever may return, in any order: every list of
\* distinct passages
RagInputs ==
    { [results |-> s] :
        s \in { t \in UNION { [1..n -> RagChunks] : n \in 0..Cardinality(RagChunks) } :
                   \A i, j \in DOMAIN t : i # j => t[i] # t[j] } }

-----------------------------------------------------------------------------
(* Pure helpers *)

FALLBACK ==
    <<"Sorry, I encountered an error processing your question. Please try again.">>

NO_INFO ==
    <<"I couldn't find any relevant information in the knowledge base. Please try rephrasing your question or contact HR directly.">>

PREAMBLE == <<"Based on the company policies, here's what I found:\n\n">>

\* nextId without the counter: `msg-${Date.now()}`
nextIdTimeOnly == <<"msg", 0, now>>

\* the id the next call of nextId returns: `msg-${messageIdCounter}-${Date.now()}`
nextId == <<"msg", messageIdCounter + 1, now>>

\* The thousandths s ending in 5 for which the double (s/1000)*100 lies below
\* the exact s/10, so that toFixed(0) rounds it down.
BelowHalf == {145, 285, 565, 575}

\* (similarity * 100).toFixed(0)
ToFixed0(s) ==
    LET q == s \div 10
        r == s % 10
    IN IF r > 5 \/ (r = 5 /\ s \notin BelowHalf) THEN q + 1 ELSE q

\* chunks with c inserted before the first chunk of lower similarity
RECURSIVE InsertDesc(_, _)
InsertDesc(c, chunks) ==
    IF chunks = <<>> THEN <<c>>
    ELSE IF Head(chunks).similarity < c.similarity THEN <<c>> \o chunks
    ELSE <<Head(chunks)>> \o InsertDesc(c, Tail(chunks))

\* chunks sorted by descending similarity
RECURSIVE SortDesc(_)
SortDesc(chunks) ==
    IF chunks = <<>> THEN <<>>
    ELSE InsertDesc(chunks[Len(chunks)], SortDesc(SubSeq(chunks, 1, Len(chunks) - 1)))

\* slice(0, 3) of the chunks re-sorted by similarity
Slice3Sorted(chunks) ==
    SubSeq(SortDesc(chunks), 1, IF Len(chunks) < 3 THEN Len(chunks) ELSE 3)

\* no slice: every chunk gets a block
SliceAll(chunks) == chunks

\* chunks.slice(0, 3)
Slice3(chunks) == SubSeq(chunks, 1, IF Len(chunks) < 3 THEN Len(chunks) ELSE 3)

\* one `**Source i+1** (p% match):\n text` block; i is 0-based as in map((c, i) => ...)
Block(c, i) ==
    <<"**Source ", ToString(i + 1), "** (", ToString(ToFixed0(c.similarity)),
      "% match):\n">> \o c.chunk_text

RECURSIVE Join(_, _)
\* blocks.join("\n\n")
Join(blocks, k) ==
    IF k > Len(blocks) THEN <<>>
    ELSE IF k = Len(blocks) THEN blocks[k]
    ELSE blocks[k] \o <<"\n\n">> \o Join(blocks, k + 1)

\* Answer without the test for an empty result
AnswerNoEmptyCase(chunks) ==
    LET top == Slice3(chunks)
        blocks == [i \in 1..Len(top) |-> Block(top[i], i - 1)]
    IN PREAMBLE \o Join(blocks, 1)

\* the answer text built from the retrieved chunks
Answer(chunks) ==
    IF Len(chunks) = 0 THEN NO_INFO
    ELSE LET top == Slice3(chunks)
             blocks == [i \in 1..Len(top) |-> Block(top[i], i - 1)]
         IN PREAMBLE \o Join(blocks, 1)

\* the three message literals of sendMessage
UserMsg(content) ==
    [id |-> nextId, role |-> "user", content |-> content,
     toolCalls |-> Undefined, sources |-> Undefined, timestamp |-> now]

\* assistantMsg with toolCalls: data.tool_calls?.length ? data.tool_calls : undefined
AgentAssistantMsgDropEmpty(data) ==
    [id |-> nextId, role |-> "assistant", content |-> data.response,
     toolCalls |-> IF data.tool_calls.t = "array" /\ data.tool_calls.v # <<>>
                   THEN data.tool_calls ELSE Undefined,
     sources |-> Undefined, timestamp |-> now]

AgentAssistantMsg(data) ==
    [id |-> nextId, role |-> "assistant", content |-> data.response,
     toolCalls |-> Coalesce(data.tool_calls, Undefined),
     sources |-> Undefined, timestamp |-> now]

\* assistantMsg whose text also carries the time of the answer
RagAssistantMsgStamped(data) ==
    [id |-> nextId, role |-> "assistant",
     content |-> Answer(data.results) \o <<"\n\n", ToString(now)>>,
     toolCalls |-> Undefined, sources |-> Arr(data.results), timestamp |-> now]

RagAssistantMsg(data) ==
    [id |-> nextId, role |-> "assistant", content |-> Answer(data.results),
     toolCalls |-> Undefined, sources |-> Arr(data.results), timestamp |-> now]

ErrorMsg ==
    [id |-> nextId, role |-> "assistant", content |-> FALLBACK,
     toolCalls |-> Undefined, sources |-> Undefined, timestamp |-> now]

-----------------------------------------------------------------------------
(* The calls of sendMessage *)

InFlight(c) == calls[c].pc \in {"ensure", "message", "rag"}
Pending == {c \in 1..Len(calls) : InFlight(c)}

\* A sendMessage invocation.  Its position and locals: pc (the await it is
\* suspended at, or "done"), content, userMsg, conversationId, data (the body
\* of the answer to its POST /v1/chat/message or /v1/rag/query).  What it has
\* done, kept for stating properties: created (it issued POST
\* /v1/chat/conversations), resolved (that call succeeded and clearMessages
\* has not run since), replyId (the id of the assistant message it appended),
\* failed (it went through catch), quiet (no other call was in flight when
\* it started), busy (isLoading was true when it started), stale
\* (clearMessages ran after it started).
NewCall(pc, content, userMsg, conversationId) ==
    [pc |-> pc, content |-> content, userMsg |-> userMsg,
     conversationId |-> conversationId, data |-> Undefined,
     created |-> (pc = "ensure"),
     resolved |-> FALSE, replyId |-> NULL, failed |-> FALSE,
     quiet |-> (Pending = {}), busy |-> isLoading, stale |-> FALSE]

-----------------------------------------------------------------------------
(* Initial state: the hook as useChat() returns it on first render *)

\* ChatInput on first render
InputInit ==
    /\ value = <<>>
    /\ disabled = FALSE
    /\ sent = <<>>
    /\ submitted = FALSE

\* AuthProvider on first render in a browser whose storage is empty
AuthInit ==
    /\ localStorage = [access_token |-> NULL, user |-> NULL, org |-> NULL]
    /\ token = NULL
    /\ user = Null
    /\ org = Null
    /\ attempt = [pc |-> "idle", page |-> "login", token |-> NULL,
                  clean |-> TRUE, temp |-> FALSE, outcome |-> "none"]
    /\ save = [pc |-> "idle"]

\* EmployeesPage on first render
EmployeesInit ==
    /\ sheetOpen = FALSE
    /\ selectedEmployeeId = NULL
    /\ employeeDetail = Null
    /\ detailLoading = FALSE
    /\ detailError = NULL
    /\ fetches = <<>>

Init ==
    /\ mode \in {"agent", "retrieval"}
    /\ messages = <<>>
    /\ isLoading = FALSE
    /\ conversationIdRef = NULL
    /\ messageIdCounter = 0
    /\ calls = <<>>
    /\ now = 0
    /\ serverConversations = 0
    /\ cleared = FALSE
    /\ otherMessages = <<>>
    /\ InputInit
    /\ AuthInit
    /\ EmployeesInit

-----------------------------------------------------------------------------
(* Agent version *)

\* sendMessage(content) up to its first network await.  ensureConversation
\* returns the cached id when there is one, else issues the creation call.
\* (Len(calls) < MaxSends only bounds the run; the code has no such test.)
sendMessage(content) ==
    /\ mode = "agent"
    /\ Len(calls) < MaxSends
    /\ messages' = Append(messages, UserMsg(content))
    /\ messageIdCounter' = messageIdCounter + 1
    /\ isLoading' = TRUE
    /\ calls' = Append(calls,
            IF Truthy(conversationIdRef)
            THEN NewCall("message", content, UserMsg(content), conversationIdRef)
            ELSE NewCall("ensure", content, UserMsg(content), NULL))
    /\ UNCHANGED <<mode, conversationIdRef, now, serverConversations>>
    /\ cleared' = FALSE

\* Catch with the optimistic user message rolled back
CatchRollback(c) ==
    /\ messages' = Append(SelectSeq(messages, LAMBDA m : m.id # calls[c].userMsg.id),
                          ErrorMsg)
    /\ messageIdCounter' = messageIdCounter + 1
    /\ isLoading' = FALSE
    /\ calls' = [calls EXCEPT ![c].pc = "done", ![c].replyId = ErrorMsg.id,
                              ![c].failed = TRUE]

\* Catch without the finally block
CatchNoFinally(c) ==
    /\ messages' = Append(messages, ErrorMsg)
    /\ messageIdCounter' = messageIdCounter + 1
    /\ UNCHANGED isLoading
    /\ calls' = [calls EXCEPT ![c].pc = "done", ![c].replyId = ErrorMsg.id,
                              ![c].failed = TRUE]

\* Catch whose fallback message carries a tool-call record
CatchWithToolCalls(c) ==
    /\ messages' = Append(messages, [ErrorMsg EXCEPT !.toolCalls = Arr(<<ToolCallA>>)])
    /\ messageIdCounter' = messageIdCounter + 1
    /\ isLoading' = FALSE
    /\ calls' = [calls EXCEPT ![c].pc = "done", ![c].replyId = ErrorMsg.id,
                              ![c].failed = TRUE]

\* the catch and finally blocks of call c
Catch(c) ==
    /\ messages' = Append(messages, ErrorMsg)
    /\ messageIdCounter' = messageIdCounter + 1
    /\ isLoading' = FALSE
    /\ calls' = [calls EXCEPT ![c].pc = "done", ![c].replyId = ErrorMsg.id,
                              ![c].failed = TRUE]

\* ensureConversation that returns data.id without storing it
ensureConversationNoStore(c) ==
    /\ c \in 1..Len(calls)
    /\ calls[c].pc = "ensure"
    /\ LET id == <<"conv", serverConversations + 1>>
       IN /\ serverConversations' = serverConversations + 1
          /\ calls' = [calls EXCEPT ![c].pc = "message", ![c].conversationId = id,
                                    ![c].resolved = TRUE]
    /\ UNCHANGED <<mode, messages, isLoading, conversationIdRef, messageIdCounter, now>>
    /\ cleared' = FALSE

\* POST /v1/chat/conversations of call c succeeds: ensureConversation stores
\* and returns data.id, and sendMessage issues POST /v1/chat/message with it
ensureConversation(c) ==
    /\ c \in 1..Len(calls)
    /\ calls[c].pc = "ensure"
    /\ LET id == <<"conv", serverConversations + 1>>
       IN /\ serverConversations' = serverConversations + 1
          /\ conversationIdRef' = id
          /\ calls' = [calls EXCEPT ![c].pc = "message", ![c].conversationId = id,
                                    ![c].resolved = TRUE]
    /\ UNCHANGED <<mode, messages, isLoading, messageIdCounter, now>>
    /\ cleared' = FALSE

\* POST /v1/chat/conversations of call c fails
ensureConversationFails(c) ==
    /\ c \in 1..Len(calls)
    /\ calls[c].pc = "ensure"
    /\ Catch(c)
    /\ UNCHANGED <<mode, conversationIdRef, now, serverConversations>>
    /\ cleared' = FALSE

\* messageReplied that puts the answer in place of the latest message
messageRepliedReplaceLast(c, data) ==
    /\ c \in 1..Len(calls)
    /\ calls[c].pc = "message"
    /\ messages' = Append(SubSeq(messages, 1, Len(messages) - 1),
                          AgentAssistantMsg(data))
    /\ messageIdCounter' = messageIdCounter + 1
    /\ isLoading' = FALSE
    /\ calls' = [calls EXCEPT ![c].pc = "done", ![c].data = data,
                              ![c].replyId = AgentAssistantMsg(data).id]
    /\ UNCHANGED <<mode, conversationIdRef, now, serverConversations>>
    /\ cleared' = FALSE

\* POST /v1/chat/message of call c answers data
messageReplied(c, data) ==
    /\ c \in 1..Len(calls)
    /\ calls[c].pc = "message"
    /\ messages' = Append(messages, AgentAssistantMsg(data))
    /\ messageIdCounter' = messageIdCounter + 1
    /\ isLoading' = FALSE
    /\ calls' = [calls EXCEPT ![c].pc = "done", ![c].data = data,
                              ![c].replyId = AgentAssistantMsg(data).id]
    /\ UNCHANGED <<mode, conversationIdRef, now, serverConversations>>
    /\ cleared' = FALSE

\* POST /v1/chat/message of call c fails
messageFails(c) ==
    /\ c \in 1..Len(calls)
    /\ calls[c].pc = "message"
    /\ Catch(c)
    /\ UNCHANGED <<mode, conversationIdRef, now, serverConversations>>
    /\ cleared' = FALSE

\* what is kept of a call that had completed when clearMessages ran: its
\* closure is gone and its messages have left the log
Forgotten(call) ==
    [call EXCEPT !.content = <<>>, !.data = Undefined, !.replyId = NULL,
                 !.userMsg = [id |-> <<"msg", 0, 0>>, role |-> "user",
                              content |-> <<>>, toolCalls |-> Undefined,
                              sources |-> Undefined, timestamp |-> 0]]

\* every call made so far started before this clearMessages
MarkStale ==
    [c \in 1..Len(calls) |->
        LET call == [calls[c] EXCEPT !.stale = TRUE, !.resolved = FALSE]
        IN IF call.pc = "done" THEN Forgotten(call) ELSE call]

\* clearMessages that empties the log and keeps the session
clearMessagesKeepSession ==
    /\ mode = "agent"
    /\ messages' = <<>>
    /\ calls' = MarkStale
    /\ UNCHANGED <<mode, isLoading, conversationIdRef, messageIdCounter, now,
                   serverConversations>>
    /\ cleared' = TRUE

\* clearMessages that removes the latest exchange only
clearMessagesDropLast ==
    /\ mode = "agent"
    /\ messages' = SubSeq(messages, 1, Len(messages) - 2)
    /\ conversationIdRef' = NULL
    /\ calls' = MarkStale
    /\ UNCHANGED <<mode, isLoading, messageIdCounter, now, serverConversations>>
    /\ cleared' = TRUE

clearMessages ==
    /\ mode = "agent"
    /\ messages' = <<>>
    /\ conversationIdRef' = NULL
    /\ calls' = MarkStale
    /\ UNCHANGED <<mode, isLoading, messageIdCounter, now, serverConversations>>
    /\ cleared' = TRUE

-----------------------------------------------------------------------------
(* Retrieval version *)

sendMessageRag(question) ==
    /\ mode = "retrieval"
    /\ Len(calls) < MaxSends
    /\ messages' = Append(messages, UserMsg(question))
    /\ messageIdCounter' = messageIdCounter + 1
    /\ isLoading' = TRUE
    /\ calls' = Append(calls, NewCall("rag", question, UserMsg(question), NULL))
    /\ UNCHANGED <<mode, conversationIdRef, now, serverConversations>>
    /\ cleared' = FALSE

\* POST /v1/rag/query of call c answers data
ragReplied(c, data) ==
    /\ c \in 1..Len(calls)
    /\ calls[c].pc = "rag"
    /\ messages' = Append(messages, RagAssistantMsg(data))
    /\ messageIdCounter' = messageIdCounter + 1
    /\ isLoading' = FALSE
    /\ calls' = [calls EXCEPT ![c].pc = "done", ![c].data = data,
                              ![c].replyId = RagAssistantMsg(data).id]
    /\ UNCHANGED <<mode, conversationIdRef, now, serverConversations>>
    /\ cleared' = FALSE

\* POST /v1/rag/query of call c fails
ragFails(c) ==
    /\ c \in 1..Len(calls)
    /\ calls[c].pc = "rag"
    /\ Catch(c)
    /\ UNCHANGED <<mode, conversationIdRef, now, serverConversations>>
    /\ cleared' = FALSE

clearMessagesRag ==
    /\ mode = "retrieval"
    /\ messages' = <<>>
    /\ calls' = MarkStale
    /\ UNCHANGED <<mode, isLoading, conversationIdRef, messageIdCounter, now,
                   serverConversations>>
    /\ cleared' = TRUE

-----------------------------------------------------------------------------
(* The clock advances *)

Tick ==
    /\ now' = now + 1
    /\ now' \in Clock
    /\ UNCHANGED <<mode, messages, isLoading, conversationIdRef, messageIdCounter,
                   calls, serverConversations>>
    /\ cleared' = FALSE

-----------------------------------------------------------------------------

\* a task of the hook leaves the other components alone
HookOnly == UNCHANGED <<otherMessages, inputVars, authVars, employeeVars>>

Next ==
    \/ \E q \in Questions : sendMessage(q) /\ HookOnly
    \/ \E c \in 1..MaxSends : ensureConversation(c) /\ HookOnly
    \/ \E c \in 1..MaxSends : ensureConversationFails(c) /\ HookOnly
    \/ \E c \in 1..MaxSends : \E d \in AgentData : messageReplied(c, d) /\ HookOnly
    \/ \E c \in 1..MaxSends : messageFails(c) /\ HookOnly
    \/ clearMessages /\ HookOnly
    \/ \E q \in Questions : sendMessageRag(q) /\ HookOnly
    \/ \E c \in 1..MaxSends : \E d \in RagData : ragReplied(c, d) /\ HookOnly
    \/ \E c \in 1..MaxSends : ragFails(c) /\ HookOnly
    \/ clearMessagesRag /\ HookOnly
    \/ Tick /\ HookOnly

Spec == Init /\ [][Next]_vars

-----------------------------------------------------------------------------
(* The retrieval version alone, over every result list of RagInputs *)

RagInit == Init /\ mode = "retrieval"

RagNext ==
    \/ \E q \in RagQuestions : Len(calls) < MaxRagSends /\ sendMessageRag(q) /\ HookOnly
    \/ \E c \in 1..MaxRagSends : \E d \in RagInputs : ragReplied(c, d) /\ HookOnly
    \/ \E c \in 1..MaxRagSends : ragFails(c) /\ HookOnly
    \/ clearMessagesRag /\ HookOnly
    \/ Tick /\ HookOnly

RagSpec == RagInit /\ [][RagNext]_vars

-----------------------------------------------------------------------------
(* Vocabulary of the properties *)

Issued == 1..Len(calls)

\* String.prototype.trim on a token string: leading and trailing blanks removed
RECURSIVE TrimStart(_)
TrimStart(s) == IF s # <<>> /\ Head(s) = " " THEN TrimStart(Tail(s)) ELSE s

RECURSIVE TrimEnd(_)
TrimEnd(s) ==
    IF s # <<>> /\ s[Len(s)] = " " THEN TrimEnd(SubSeq(s, 1, Len(s) - 1)) ELSE s

Trim(s) == TrimEnd(TrimStart(s))

\* this step is a call of sendMessage; the new call is Len(calls')
IsSend == Len(calls') = Len(calls) + 1

\* this step takes call c through catch
IsFailure(c) == c \in Issued /\ ~calls[c].failed /\ calls'[c].failed

\* this step settles call c: its last await resolved or rejected
IsSettle(c) == c \in Issued /\ InFlight(c) /\ calls'[c].pc = "done"

\* message m was made by call c
MadeBy(m, c) == m.id = calls[c].userMsg.id \/ m.id = calls[c].replyId

\* log is user, assistant, user, assistant, ..., each pair made by one call
Alternates(log) ==
    /\ Len(log) % 2 = 0
    /\ \A i \in 1..Len(log) :
          log[i].role = (IF i % 2 = 1 THEN "user" ELSE "assistant")
    /\ \A i \in 1..Len(log) :
          i % 2 = 1 => \E c \in Issued :
              log[i] = calls[c].userMsg /\ log[i + 1].id = calls[c].replyId

-----------------------------------------------------------------------------
(* ChatInput (unnamed/part_000) *)

\* what the textarea may hold after a change event
InputValues == { <<>>, <<" ">>, <<"b">>, <<" ", "a", " ">>, <<"a", " ", "b">> }

\* the keys of a keydown event
Keys == {"Enter", "a"}

\* onChange={(e) => setValue(e.target.value)}; a disabled textarea takes no input
onChange(v) ==
    /\ ~disabled
    /\ value' = v
    /\ submitted' = FALSE
    /\ UNCHANGED sent

\* handleSubmit that tests and sends the value as typed
handleSubmitNoTrim ==
    /\ submitted' = TRUE
    /\ IF value = <<>> \/ disabled
       THEN UNCHANGED <<value, sent>>
       ELSE /\ sent' = Append(sent, value)
            /\ value' = <<>>

\* handleSubmit: if (!trimmed || disabled) return; onSend(trimmed); setValue("")
handleSubmit ==
    /\ submitted' = TRUE
    /\ LET trimmed == Trim(value)
       IN IF trimmed = <<>> \/ disabled
          THEN UNCHANGED <<value, sent>>
          ELSE /\ sent' = Append(sent, trimmed)
               /\ value' = <<>>

\* handleKeyDown: Enter without Shift submits, any other key is left to the
\* textarea
handleKeyDown(key, shiftKey) ==
    IF key = "Enter" /\ ~shiftKey
    THEN handleSubmit
    ELSE /\ submitted' = FALSE
         /\ UNCHANGED <<value, sent>>

\* the hook is not called: nothing of it changes, and the latest task is not
\* a call of clearMessages
HookIdle ==
    /\ UNCHANGED <<mode, messages, isLoading, conversationIdRef, messageIdCounter,
                   calls, now, serverConversations>>
    /\ cleared' = FALSE

\* ChatInput under a parent that records the calls of onSend and renders it
\* with any value of disabled.  (Len(sent) < MaxInputSends only bounds the run.)
InputOnly == HookIdle /\ UNCHANGED <<otherMessages, authVars, employeeVars>>

InputSpecInit == Init /\ mode = "agent"

InputNext ==
    \/ \E v \in InputValues : onChange(v) /\ UNCHANGED disabled /\ InputOnly
    \/ Len(sent) < MaxInputSends /\ handleSubmit /\ UNCHANGED disabled /\ InputOnly
    \/ \E key \in Keys : \E shiftKey \in BOOLEAN :
          /\ Len(sent) < MaxInputSends
          /\ handleKeyDown(key, shiftKey)
          /\ UNCHANGED disabled /\ InputOnly
    \/ \E b \in BOOLEAN :
          /\ disabled' = b
          /\ submitted' = FALSE
          /\ UNCHANGED <<value, sent>> /\ InputOnly

InputSpec == InputSpecInit /\ [][InputNext]_vars

-----------------------------------------------------------------------------
(* ChatPage (frontend/src/pages/RegisterPage.tsx, lines 143-166):           *)
(* <ChatInput onSend={sendMessage} disabled={isLoading} />                  *)

\* onSend={sendMessage}: the calls of onSend made in this step reach the hook
PageOnSend ==
    IF Len(sent') > Len(sent)
    THEN sendMessage(sent'[Len(sent')]) \/ sendMessageRag(sent'[Len(sent')])
    ELSE HookIdle

\* ChatInput rendered without the prop disabled
PageRenderNeverDisabled == disabled' = FALSE

\* disabled={isLoading}: the render after the task passes the new isLoading
PageRender == disabled' = isLoading'

\* a task of the hook under ChatPage
PageHook ==
    /\ submitted' = FALSE
    /\ UNCHANGED <<value, sent>>
    /\ PageRender
    /\ UNCHANGED <<otherMessages, authVars, employeeVars>>

PageNext ==
    \/ \E v \in Questions :
          onChange(v) /\ HookIdle /\ PageRender /\ UNCHANGED <<otherMessages, authVars, employeeVars>>
    \/ handleSubmit /\ PageOnSend /\ PageRender /\ UNCHANGED <<otherMessages, authVars, employeeVars>>
    \/ \E key \in Keys : \E shiftKey \in BOOLEAN :
          /\ handleKeyDown(key, shiftKey) /\ PageOnSend /\ PageRender
          /\ UNCHANGED <<otherMessages, authVars, employeeVars>>
    \/ \E c \in 1..MaxSends : ensureConversation(c) /\ PageHook
    \/ \E c \in 1..MaxSends : ensureConversationFails(c) /\ PageHook
    \/ \E c \in 1..MaxSends : \E d \in AgentData : messageReplied(c, d) /\ PageHook
    \/ \E c \in 1..MaxSends : messageFails(c) /\ PageHook
    \/ \E c \in 1..MaxSends : \E d \in RagData : ragReplied(c, d) /\ PageHook
    \/ \E c \in 1..MaxSends : ragFails(c) /\ PageHook
    \/ Len(messages) > 0 /\ clearMessages /\ PageHook
    \/ Len(messages) > 0 /\ clearMessagesRag /\ PageHook
    \/ Tick /\ PageHook

PageSpec == Init /\ [][PageNext]_vars

-----------------------------------------------------------------------------
(* Two useChat instances of one module: they share messageIdCounter.  The *)
(* calls of sendMessage and their completions interleave freely with the   *)
(* messages the second instance makes; clearMessages is not called.        *)

IdQuestions == { <<"a">> }
IdAgentData == { [response |-> <<"r1">>, tool_calls |-> Null] }
IdRagData == { [results |-> <<>>] }

\* the second instance makes a message (in sendMessage, after an answer or in
\* catch) and appends it to its own log.  (Len(otherMessages) <
\* MaxOtherMessages only bounds the run.)
otherAppends ==
    /\ Len(otherMessages) < MaxOtherMessages
    /\ otherMessages' = Append(otherMessages, UserMsg(<<"a">>))
    /\ messageIdCounter' = messageIdCounter + 1
    /\ UNCHANGED <<mode, messages, isLoading, conversationIdRef, calls, now,
                   serverConversations>>
    /\ cleared' = FALSE

IdNext ==
    \/ \E q \in IdQuestions : sendMessage(q) /\ HookOnly
    \/ \E c \in 1..MaxSends : ensureConversation(c) /\ HookOnly
    \/ \E c \in 1..MaxSends : ensureConversationFails(c) /\ HookOnly
    \/ \E c \in 1..MaxSends : \E d \in IdAgentData : messageReplied(c, d) /\ HookOnly
    \/ \E c \in 1..MaxSends : messageFails(c) /\ HookOnly
    \/ \E q \in IdQuestions : sendMessageRag(q) /\ HookOnly
    \/ \E c \in 1..MaxSends : \E d \in IdRagData : ragReplied(c, d) /\ HookOnly
    \/ \E c \in 1..MaxSends : ragFails(c) /\ HookOnly
    \/ Tick /\ HookOnly
    \/ otherAppends /\ UNCHANGED <<inputVars, authVars, employeeVars>>

IdSpec == Init /\ [][IdNext]_vars

-----------------------------------------------------------------------------
(* AuthProvider (frontend/src/contexts/AuthContext.tsx, lines 43-92) with   *)
(* its callers: LoginPage and RegisterPage handleSubmit, SettingsPage       *)
(* handleSave, the logout button of DashboardLayout, and a page reload.     *)

Tokens == { <<"t1">>, <<"t2">> }

Users == { [id |-> "u1", email |-> "e1", full_name |-> "f1", role |-> "admin"],
           [id |-> "u2", email |-> "e2", full_name |-> "f2", role |-> "employee"] }

Orgs == { [id |-> "o1", name |-> "n1", slug |-> "s1"],
          [id |-> "o1", name |-> "n2", slug |-> "s1"] }

\* JSON.stringify of a User or an Org
JSONstringify(x) ==
    IF "slug" \in DOMAIN x
    THEN <<"{\"id\":", x.id, ",\"name\":", x.name, ",\"slug\":", x.slug, "}">>
    ELSE <<"{\"id\":", x.id, ",\"email\":", x.email, ",\"full_name\":", x.full_name,
           ",\"role\":", x.role, "}">>

\* getStoredValue(key): the stored item parsed, null when it is missing or
\* does not parse
getStoredValue(key) ==
    LET item == localStorage[key]
    IN IF item # NULL /\ \E x \in Users \cup Orgs : JSONstringify(x) = item
       THEN CHOOSE x \in Users \cup Orgs : JSONstringify(x) = item
       ELSE Null

login(newToken, newUser, newOrg) ==
    /\ localStorage' = [access_token |-> newToken,
                        user |-> JSONstringify(newUser),
                        org |-> JSONstringify(newOrg)]
    /\ token' = newToken
    /\ user' = newUser
    /\ org' = newOrg

\* the logout button of DashboardLayout, rendered when isAuthenticated
logout ==
    /\ token # NULL
    /\ localStorage' = [access_token |-> NULL, user |-> NULL, org |-> NULL]
    /\ token' = NULL
    /\ user' = Null
    /\ org' = Null
    /\ attempt' = [attempt EXCEPT !.temp = FALSE]
    /\ UNCHANGED save

setOrg(newOrg) ==
    /\ localStorage' = [localStorage EXCEPT !.org = JSONstringify(newOrg)]
    /\ org' = newOrg

\* handleSubmit of LoginPage or RegisterPage up to its first await.  AuthLayout
\* shows these pages only while not authenticated, and the submit button is
\* disabled while loading.
handleSubmitLogin(page) ==
    /\ token = NULL
    /\ attempt.pc = "idle"
    /\ attempt' = [pc |-> "login", page |-> page, token |-> NULL,
                   clean |-> (localStorage.access_token = NULL),
                   temp |-> attempt.temp, outcome |-> "none"]
    /\ UNCHANGED <<token, user, org, localStorage, save>>

\* POST /v1/auth/login (or /v1/auth/register-org) answers: the token is stored
\* and the profile and organization are requested
loginReplied(newToken) ==
    /\ attempt.pc = "login"
    /\ localStorage' = [localStorage EXCEPT !.access_token = newToken]
    /\ attempt' = [attempt EXCEPT !.pc = "profile", !.token = newToken, !.temp = TRUE]
    /\ UNCHANGED <<token, user, org, save>>

\* POST /v1/auth/login fails: catch, finally
loginFails ==
    /\ attempt.pc = "login"
    /\ attempt' = [attempt EXCEPT !.pc = "idle", !.outcome = "failed"]
    /\ UNCHANGED <<token, user, org, localStorage, save>>

\* GET /v1/auth/me and GET /v1/org have both answered: login(...), navigate
profileReplied(me, orgData) ==
    /\ attempt.pc = "profile"
    /\ login(attempt.token, me, orgData)
    /\ attempt' = [attempt EXCEPT !.pc = "idle", !.temp = FALSE, !.outcome = "ok"]
    /\ UNCHANGED save

\* GET /v1/auth/me or GET /v1/org fails: catch, finally
profileFails ==
    /\ attempt.pc = "profile"
    /\ attempt' = [attempt EXCEPT !.pc = "idle", !.outcome = "failed"]
    /\ UNCHANGED <<token, user, org, localStorage, save>>

\* SettingsPage.handleSave up to its await; the page is under DashboardLayout,
\* shown only while authenticated, and the button is disabled while saving
handleSave ==
    /\ token # NULL
    /\ save.pc = "idle"
    /\ save' = [pc |-> "patch"]
    /\ UNCHANGED <<token, user, org, localStorage, attempt>>

\* PATCH /v1/org answers data: setOrg({id, name, slug})
saveReplied(data) ==
    /\ save.pc = "patch"
    /\ setOrg([id |-> data.id, name |-> data.name, slug |-> data.slug])
    /\ save' = [pc |-> "idle"]
    /\ UNCHANGED <<token, user, attempt>>

\* PATCH /v1/org fails: catch, finally
saveFails ==
    /\ save.pc = "patch"
    /\ save' = [pc |-> "idle"]
    /\ UNCHANGED <<token, user, org, localStorage, attempt>>

\* the page is loaded again: the handlers in progress are gone and
\* AuthProvider takes its state from storage
reload ==
    /\ token' = localStorage.access_token
    /\ user' = getStoredValue("user")
    /\ org' = getStoredValue("org")
    /\ attempt' = [attempt EXCEPT !.pc = "idle", !.temp = FALSE,
                       !.outcome = IF attempt.pc = "idle" THEN attempt.outcome
                                   ELSE "aborted"]
    /\ save' = [pc |-> "idle"]
    /\ UNCHANGED localStorage

AuthOnly == UNCHANGED <<hookVars, otherMessages, inputVars, employeeVars>>

AuthSpecInit == Init /\ mode = "agent"

AuthNext ==
    \/ \E page \in {"login", "register"} : handleSubmitLogin(page) /\ AuthOnly
    \/ \E t \in Tokens : loginReplied(t) /\ AuthOnly
    \/ loginFails /\ AuthOnly
    \/ \E me \in Users : \E orgData \in Orgs : profileReplied(me, orgData) /\ AuthOnly
    \/ profileFails /\ AuthOnly
    \/ logout /\ AuthOnly
    \/ handleSave /\ AuthOnly
    \/ \E data \in Orgs : saveReplied(data) /\ AuthOnly
    \/ saveFails /\ AuthOnly
    \/ reload /\ AuthOnly

AuthSpec == AuthSpecInit /\ [][AuthNext]_vars

-----------------------------------------------------------------------------
(* The employee detail sheet of EmployeesPage (unnamed/part_004, lines      *)
(* 104-166).  The leave balance and leave request lists that handleRowClick *)
(* also resets are separate state of the page and are left out.             *)

EmployeeIds == {"e1", "e2", "e3"}

\* the body GET /v1/employees/{employeeId} answers with
EmployeeRecord(employeeId) ==
    [id |-> employeeId, full_name |-> <<"name of ", employeeId>>, status |-> "active"]

DETAIL_ERROR == <<"Failed to load employee details.">>

\* handleRowClick(employeeId) with the call of fetchEmployeeDetail up to its
\* await.  (Len(fetches) < MaxClicks only bounds the run.)
handleRowClick(employeeId) ==
    /\ Len(fetches) < MaxClicks
    /\ selectedEmployeeId' = <<employeeId>>
    /\ sheetOpen' = TRUE
    /\ employeeDetail' = Null
    /\ detailLoading' = TRUE
    /\ detailError' = NULL
    /\ fetches' = Append(fetches, [employeeId |-> employeeId, pc |-> "get"])

\* GET /v1/employees/{employeeId} of call f answers: setEmployeeDetail(data),
\* finally
detailReplied(f) ==
    /\ f \in 1..Len(fetches)
    /\ fetches[f].pc = "get"
    /\ employeeDetail' = EmployeeRecord(fetches[f].employeeId)
    /\ detailLoading' = FALSE
    /\ fetches' = [fetches EXCEPT ![f].pc = "done"]
    /\ UNCHANGED <<sheetOpen, selectedEmployeeId, detailError>>

\* GET /v1/employees/{employeeId} of call f fails: catch, finally
detailFails(f) ==
    /\ f \in 1..Len(fetches)
    /\ fetches[f].pc = "get"
    /\ detailError' = DETAIL_ERROR
    /\ detailLoading' = FALSE
    /\ fetches' = [fetches EXCEPT ![f].pc = "done"]
    /\ UNCHANGED <<sheetOpen, selectedEmployeeId, employeeDetail>>

\* onOpenChange={setSheetOpen} when the sheet is closed
closeSheet ==
    /\ sheetOpen
    /\ sheetOpen' = FALSE
    /\ UNCHANGED <<selectedEmployeeId, employeeDetail, detailLoading, detailError,
                   fetches>>

EmployeesOnly == UNCHANGED <<hookVars, otherMessages, inputVars, authVars>>

EmployeesSpecInit == Init /\ mode = "agent"

EmployeesNext ==
    \/ \E e \in EmployeeIds : handleRowClick(e) /\ EmployeesOnly
    \/ \E f \in 1..MaxClicks : detailReplied(f) /\ EmployeesOnly
    \/ \E f \in 1..MaxClicks : detailFails(f) /\ EmployeesOnly
    \/ closeSheet /\ EmployeesOnly

EmployeesSpec == EmployeesSpecInit /\ [][EmployeesNext]_vars

-----------------------------------------------------------------------------
(* C1 - C10 *)

\* C1: whenever no sendMessage is in flight, the Message Log strictly
\* alternates user, assistant, user, assistant, ..., every user message
\* immediately followed by the one assistant message its call produced.
C1_LogAlternatesWhenIdle == Pending = {} => Alternates(messages)

\* C2: single-flight: at most one sendMessage is in flight at any time, and a
\* sendMessage called while isLoading is true appends no message and issues
\* no backend call.
C2_SingleFlight ==
    /\ Cardinality(Pending) <= 1
    /\ \A c \in Issued : ~calls[c].busy

\* C3: between two consecutive clearMessages calls (or from the creation of
\* the hook to the first clear) at most one POST /v1/chat/conversations
\* succeeds, whatever the interleaving of sendMessage calls.
C3_OneSessionPerConversation ==
    Cardinality({c \in Issued : calls[c].resolved}) <= 1

\* C4 (as stated): a sendMessage whose question is non-empty after trimming
\* appends, in the step of the call and while its backend call is still
\* pending, exactly one user message with that content; a later failure of
\* the call appends to the log and removes nothing from it.
C4_UserMessageAppended ==
    [][ /\ (IsSend /\ Trim(calls'[Len(calls')].content) # <<>>) =>
              LET k == Len(calls')
                  m == calls'[k].userMsg
              IN /\ messages' = Append(messages, m)
                 /\ m.role = "user"
                 /\ m.content = calls'[k].content
                 /\ calls'[k].pc \in {"ensure", "message", "rag"}
        /\ \A c \in Issued :
              IsFailure(c) =>
                  /\ Len(messages') > Len(messages)
                  /\ SubSeq(messages', 1, Len(messages)) = messages
      ]_vars

\* a call with a question that needed trimming failed, and its user message
\* is in the log, right before the fallback
C4_Witness ==
    \E c \in Issued : \E i \in 1..Len(messages) :
        /\ calls[c].failed
        /\ Trim(calls[c].content) # <<>>
        /\ Trim(calls[c].content) # calls[c].content
        /\ messages[i] = calls[c].userMsg
        /\ messages[i].content = calls[c].content

\* C5: whenever a sendMessage fails, at whatever stage, exactly one assistant
\* message with the fixed fallback text is appended, and the user message of
\* that call is still in the log unchanged.
C5_FailureAppendsFallback ==
    [][ \A c \in Issued :
          IsFailure(c) =>
              /\ Len(messages') = Len(messages) + 1
              /\ SubSeq(messages', 1, Len(messages)) = messages
              /\ messages'[Len(messages')].role = "assistant"
              /\ messages'[Len(messages')].content = FALLBACK
              /\ \E i \in 1..Len(messages') : messages'[i] = calls[c].userMsg
      ]_vars

\* C6 (as stated): the step that settles a sendMessage, on the success path
\* and on every failure path, sets isLoading to false; and whenever every
\* issued sendMessage has settled, isLoading is false.
C6_LoadingReleased ==
    /\ [](Pending = {} => ~isLoading)
    /\ [][ \A c \in Issued : IsSettle(c) => ~isLoading' ]_vars

\* two calls have settled, one through catch and one with an answer, and
\* isLoading is false
C6_Witness ==
    /\ Pending = {}
    /\ ~isLoading
    /\ \E c, d \in Issued : calls[c].failed /\ ~calls[d].failed

\* C7: after clearMessages, the next sendMessage issues a fresh
\* session-creation call and does not use a session identifier of a call made
\* before the clear, also when the clear came while such a call was in flight.
C7_FreshSessionAfterClear ==
    mode = "agent" =>
        \A k \in Issued :
            (/\ ~calls[k].stale
             /\ k > 1
             /\ \A d \in 1..(k - 1) : calls[d].stale)
            => /\ calls[k].created
               /\ \A d \in 1..(k - 1) :
                     calls[k].conversationId # NULL
                         => calls[k].conversationId # calls[d].conversationId

\* C8: the Message Log holds no message (user message, reply or fallback) of
\* a sendMessage that was called before the latest clearMessages.
C8_LogOfCurrentConversation ==
    \A i \in 1..Len(messages) : \A c \in Issued :
        calls[c].stale => ~MadeBy(messages[i], c)

\* this step is a call of clearMessages
IsClear == messages' = <<>> /\ \A c \in Issued : calls'[c].stale

\* C9: the session identifier goes from null to a value only when a
\* session-creation call succeeds, keeps that value until clearMessages, and
\* goes back to null only by clearMessages.
C9_SessionStateMachine ==
    [][ /\ (conversationIdRef = NULL /\ conversationIdRef' # NULL) =>
              /\ serverConversations' = serverConversations + 1
              /\ conversationIdRef' = <<"conv", serverConversations'>>
        /\ conversationIdRef # NULL =>
              \/ conversationIdRef' = conversationIdRef
              \/ conversationIdRef' = NULL /\ IsClear
      ]_vars

\* calls c and c + 1 are two consecutive calls on one conversation: c found
\* the session unresolved and nothing in flight, c + 1 came after c had
\* completed, and clearMessages has not run since c started
Consecutive(c) ==
    /\ c \in Issued /\ c + 1 \in Issued
    /\ calls[c].quiet /\ calls[c + 1].quiet
    /\ ~calls[c].stale /\ ~calls[c + 1].stale
    /\ calls[c].created

\* C10 as stated: two consecutive sendMessage calls on one conversation make
\* exactly one session-creation call, and their agent requests carry the same
\* conversation id.
C10_TwoSendsOneCreation ==
    mode = "agent" =>
        \A c \in Issued :
            Consecutive(c) =>
                /\ ~calls[c + 1].created
                /\ calls[c + 1].conversationId = calls[c].conversationId

\* C10 amended: ... when the session-creation call of the first succeeds.
C10_TwoSendsOneCreationIfCreated ==
    mode = "agent" =>
        \A c \in Issued :
            (Consecutive(c) /\ calls[c].conversationId # NULL) =>
                /\ ~calls[c + 1].created
                /\ calls[c + 1].conversationId = calls[c].conversationId

\* two consecutive calls have both been answered, with one session created
C10_Witness ==
    /\ Consecutive(1)
    /\ calls[1].pc = "done" /\ calls[2].pc = "done"
    /\ ~calls[1].failed /\ ~calls[2].failed
    /\ serverConversations = 1
    /\ calls[2].conversationId = <<"conv", 1>>

-----------------------------------------------------------------------------
(* C11 - C20 *)

\* the log after this step is the old log with one fallback message appended
FallbackAppended ==
    /\ Len(messages') = Len(messages) + 1
    /\ SubSeq(messages', 1, Len(messages)) = messages
    /\ messages'[Len(messages')].role = "assistant"
    /\ messages'[Len(messages')].content = FALLBACK

\* the latest call failed at session creation and clearMessages has not run since
LastCreationFailed ==
    /\ calls # <<>>
    /\ LET c == calls[Len(calls)]
       IN c.created /\ c.failed /\ c.conversationId = NULL /\ ~c.stale

\* C11: when the session-creation call fails, the session identifier stays
\* null, the call appends the fallback without issuing an agent request, and
\* the next sendMessage issues a new session-creation call.
C11_CreationFailure ==
    [][ /\ \A c \in Issued :
              (IsFailure(c) /\ calls[c].pc = "ensure") =>
                  /\ conversationIdRef' = NULL
                  /\ FallbackAppended
                  /\ calls'[c].conversationId = NULL
                  /\ calls'[c].pc = "done"
        /\ (IsSend /\ mode = "agent" /\ LastCreationFailed) =>
              calls'[Len(calls')].created
      ]_vars

\* C12: a sendMessage whose question is empty after trimming appends no
\* message, leaves isLoading alone and issues no backend call.
C12_BlankQuestionIsNoOp ==
    [][ (IsSend /\ Trim(calls'[Len(calls')].content) = <<>>) =>
            /\ messages' = messages
            /\ isLoading' = isLoading
            /\ calls'[Len(calls')].pc = "done"
      ]_vars

\* C13: right after clearMessages the Message Log is empty and the session
\* identifier is null; the call issues no backend call, settles none and
\* leaves isLoading as it was.
C13_ClearResets ==
    /\ [](cleared => messages = <<>> /\ conversationIdRef = NULL)
    /\ [][ cleared' =>
              /\ isLoading' = isLoading
              /\ Len(calls') = Len(calls)
              /\ \A c \in Issued : calls'[c].pc = calls[c].pc
              /\ serverConversations' = serverConversations
         ]_vars

\* clearMessages has just run on a resolved session with a call in flight
C13_Witness ==
    /\ cleared
    /\ isLoading
    /\ \E c \in Issued : InFlight(c) /\ calls[c].conversationId # NULL

\* C14: clearMessages is idempotent: called again right after a clearMessages
\* it changes nothing (log empty, session null, isLoading as it was).
C14_ClearIdempotent ==
    [][ (cleared /\ cleared') =>
            UNCHANGED <<mode, messages, isLoading, conversationIdRef,
                        messageIdCounter, calls, now, serverConversations>>
      ]_vars

\* clearMessages has just run after two calls had completed
C14_Witness ==
    /\ cleared
    /\ ~isLoading
    /\ Len(calls) >= 2
    /\ \A c \in Issued : calls[c].pc = "done"

\* C15: every step other than clearMessages (a sendMessage, an answer, a
\* failure) keeps the old log as a prefix of the new one.
C15_AppendOnly ==
    [][ ~cleared' =>
            /\ Len(messages') >= Len(messages)
            /\ SubSeq(messages', 1, Len(messages)) = messages
      ]_vars

\* the log holds a user message, the fallback of its call, and what a second
\* call appended after them
C15_Witness ==
    /\ Len(messages) >= 4
    /\ messages[2].content = FALLBACK
    /\ messages[4].content # FALLBACK

\* this step settles call c with an answer
IsAnswer(c) == IsSettle(c) /\ ~calls'[c].failed

\* C16: a successful agent call appends exactly one assistant message, whose
\* content is the returned response and whose toolCalls is the returned
\* tool_calls list, same entries in the same order, also when it is empty.
C16_ToolCallsVerbatim ==
    [][ \A c \in Issued :
          (IsAnswer(c) /\ calls[c].pc = "message") =>
              LET d == calls'[c].data
                  m == messages'[Len(messages')]
              IN /\ Len(messages') = Len(messages) + 1
                 /\ SubSeq(messages', 1, Len(messages)) = messages
                 /\ m.role = "assistant"
                 /\ m.content = d.response
                 /\ d.tool_calls.t = "array" => m.toolCalls = d.tool_calls
      ]_vars

\* the log holds an answer with an empty tool-call list and one with two
\* tool calls
C16_Witness ==
    \E i, j \in 1..Len(messages) :
        /\ messages[i].toolCalls = Arr(<<>>)
        /\ messages[j].toolCalls = Arr(<<ToolCallB, ToolCallA>>)

\* the answers in the log, each with the body it was built from
Replies ==
    { <<messages[i], calls[c].data>> :
        <<i, c>> \in { p \in (1..Len(messages)) \X Issued :
                          /\ ~calls[p[2]].failed
                          /\ messages[p[1]].id = calls[p[2]].replyId } }

Min(a, b) == IF a < b THEN a ELSE b

\* where the source blocks of an answer text start, and the parts of the
\* i-th block
SourcePositions(content) == {p \in 1..Len(content) : content[p] = "**Source "}
NBlocks(content) == Cardinality(SourcePositions(content))
Position(content, i) ==
    CHOOSE p \in SourcePositions(content) :
        Cardinality({q \in SourcePositions(content) : q <= p}) = i
BlockEnd(content, i) ==
    IF i = NBlocks(content) THEN Len(content) ELSE Position(content, i + 1) - 2
BlockIndex(content, i) == content[Position(content, i) + 1]
BlockPct(content, i) == content[Position(content, i) + 3]
BlockText(content, i) ==
    SubSeq(content, Position(content, i) + 5, BlockEnd(content, i))

\* C17: for a retrieval answer built from n >= 1 results, the content has
\* exactly min(n, 3) source blocks and sources holds all n results, unmodified
\* and in the returned order.
C17_BlocksAndSources ==
    \A r \in Replies :
        LET m == r[1]
            results == r[2].results
        IN Len(results) >= 1 =>
              /\ NBlocks(m.content) = Min(Len(results), 3)
              /\ m.sources = Arr(results)

\* the log holds an answer built from four results
C17_Witness ==
    \E r \in Replies : Len(r[2].results) = 4 /\ NBlocks(r[1].content) = 3

\* C18: for a retrieval answer built from an empty result list, the content
\* is the fixed "no relevant information" text and sources is empty.
C18_EmptyResult ==
    \A r \in Replies :
        r[2].results = <<>> =>
            /\ r[1].content = NO_INFO
            /\ r[1].sources.t \in {"array", "undefined"}
            /\ r[1].sources.t = "array" => r[1].sources.v = <<>>

\* the log holds an answer built from an empty result list
C18_Witness ==
    \E r \in Replies : r[2].results = <<>> /\ r[1].role = "assistant"

\* C19: the i-th source block (i up to min(n, 3)) is numbered i and carries
\* the passage text and the similarity of the i-th returned result, whatever
\* the order of the similarities.
C19_ReturnedOrderKept ==
    \A r \in Replies :
        LET content == r[1].content
            results == r[2].results
        IN \A i \in 1..Min(Len(results), 3) :
              /\ NBlocks(content) >= i
              /\ BlockIndex(content, i) = ToString(i)
              /\ BlockPct(content, i) = ToString(ToFixed0(results[i].similarity))
              /\ BlockText(content, i) = results[i].chunk_text

\* the log holds an answer built from results that are not in descending
\* order and whose first three hold two of equal similarity
C19_Witness ==
    \E r \in Replies :
        LET results == r[2].results
        IN /\ Len(results) >= 3
           /\ results[1].similarity < results[2].similarity
           /\ results[1].similarity = results[3].similarity
           /\ results[1].chunk_text # results[3].chunk_text

\* similarity * 100 rounded half-up, similarity being in thousandths
RoundHalfUp(s) == (s + 5) \div 10

\* C20: the percentage of a source block is similarity * 100 rounded half-up
\* to a whole number, and lies between 0 and 100.
C20_PercentRoundedHalfUp ==
    \A r \in Replies :
        LET content == r[1].content
            results == r[2].results
        IN \A i \in 1..Min(Len(results), 3) :
              /\ BlockPct(content, i) = ToString(RoundHalfUp(results[i].similarity))
              /\ RoundHalfUp(results[i].similarity) \in 0..100

-----------------------------------------------------------------------------
(* C21 - C30 *)

\* C21: retrieval synthesis is deterministic: two answers built from the same
\* result list have identical content and identical sources; and the step
\* that receives the retrieval response appends the answer without issuing
\* any other backend call.
C21_DeterministicSynthesis ==
    /\ [](mode = "retrieval" =>
            \A r1, r2 \in Replies :
                r1[2] = r2[2] =>
                    /\ r1[1].content = r2[1].content
                    /\ r1[1].sources = r2[1].sources)
    /\ [][ \A c \in Issued :
             (IsAnswer(c) /\ calls[c].pc = "rag") =>
                 /\ Len(messages') = Len(messages) + 1
                 /\ messages'[Len(messages')].id = calls'[c].replyId
                 /\ Len(calls') = Len(calls)
                 /\ \A d \in Issued \ {c} : calls'[d] = calls[d]
                 /\ serverConversations' = serverConversations
         ]_vars

\* the log holds two answers built from the same non-empty result list at
\* different times
C21_Witness ==
    /\ mode = "retrieval"
    /\ \E r1, r2 \in Replies :
          /\ r1[2] = r2[2]
          /\ r1[2].results # <<>>
          /\ r1[1].id # r2[1].id
          /\ r1[1].timestamp # r2[1].timestamp

\* C23: a message of the log carries tool-call records only if it is the
\* answer of a call that did not fail, with the records of the response; the
\* fallback message appended on a failure has no toolCalls.
C23_ToolCallsOnlyFromSuccess ==
    /\ [](\A i \in 1..Len(messages) :
            messages[i].toolCalls # Undefined =>
                \E r \in Replies :
                    /\ r[1] = messages[i]
                    /\ r[2].tool_calls = messages[i].toolCalls)
    /\ [][ \A c \in Issued :
             IsFailure(c) =>
                 /\ messages'[Len(messages')].id = calls'[c].replyId
                 /\ messages'[Len(messages')].toolCalls = Undefined
         ]_vars

\* the agent request of a call failed after an earlier call had been answered
\* with tool calls: the log holds that answer and the fallback
C23_Witness ==
    \E i, j \in 1..Len(messages) : \E c \in Issued :
        /\ i < j
        /\ messages[i].toolCalls = Arr(<<ToolCallB, ToolCallA>>)
        /\ messages[j].content = FALLBACK
        /\ messages[j].id = calls[c].replyId
        /\ calls[c].failed
        /\ calls[c].conversationId # NULL

\* this step issues POST /v1/chat/message for call c
IssuesMessage(c) ==
    /\ c \in 1..Len(calls')
    /\ calls'[c].pc = "message"
    /\ c \in Issued => calls[c].pc # "message"

\* C25: an agent message request is issued only once a session-creation call
\* has succeeded; it carries an id such a call returned, which is the stored
\* session identifier at that moment, never null.
C25_MessageAfterSession ==
    [][ \A c \in 1..MaxSends :
          IssuesMessage(c) =>
              /\ calls'[c].conversationId # NULL
              /\ calls'[c].conversationId = conversationIdRef'
              /\ \E k \in 1..serverConversations' :
                    calls'[c].conversationId = <<"conv", k>>
      ]_vars

\* one call has sent its agent request with the id its own creation call
\* returned, another with the cached id
C25_Witness ==
    \E c, d \in Issued :
        /\ calls[c].created /\ calls[c].conversationId # NULL
        /\ ~calls[d].created /\ calls[d].conversationId = calls[c].conversationId

\* C27: isLoading is true in every state in which a sendMessage is in flight.
C27_LoadingWhilePending == Pending # {} => isLoading

\* clearMessages has not run while a call now in flight, or whose answer is
\* in the log, was in flight
NoClearInFlight ==
    \A c \in Issued : calls[c].stale => ~InFlight(c) /\ calls[c].replyId = NULL

\* C24: with every sendMessage coming from ChatInput as wired in ChatPage, at
\* most one sendMessage is in flight at any time, and as long as clearMessages
\* has not run while a call was in flight the log alternates user, assistant.
C24_SingleFlightUnderChatPage ==
    /\ Cardinality(Pending) <= 1
    /\ NoClearInFlight =>
          /\ \A i \in 1..Len(messages) :
                messages[i].role = (IF i % 2 = 1 THEN "user" ELSE "assistant")
          /\ Pending = {} => Alternates(messages)
          /\ Pending # {} => Len(messages) % 2 = 1

\* two exchanges have completed through ChatInput, one with the fallback
C24_Witness ==
    /\ Len(messages) = 4
    /\ Len(sent) = 2
    /\ Pending = {}
    /\ NoClearInFlight
    /\ \E c \in Issued : calls[c].failed

\* C26: ChatInput calls onSend only when it is not disabled and the value is
\* non-empty after trimming, with the trimmed text, and then resets the value;
\* a submit while disabled or with blank text changes nothing and calls nothing.
C26_ChatInputGuard ==
    [][ /\ Len(sent') > Len(sent) =>
              /\ submitted'
              /\ ~disabled
              /\ Trim(value) # <<>>
              /\ sent' = Append(sent, Trim(value))
              /\ value' = <<>>
        /\ (submitted' /\ ~disabled /\ Trim(value) # <<>>) =>
              /\ sent' = Append(sent, Trim(value))
              /\ value' = <<>>
        /\ (submitted' /\ (disabled \/ Trim(value) = <<>>)) =>
              /\ value' = value
              /\ sent' = sent
      ]_vars

\* a text with blanks around it has been sent trimmed, and a submit while
\* disabled has left a non-blank text in place
C26_Witness ==
    /\ submitted
    /\ disabled
    /\ Trim(value) # <<>>
    /\ \E i \in 1..Len(sent) : sent[i] = <<"a">>

\* the ids of a log are pairwise distinct and their counters grow along it
Increasing(log) ==
    \A i, j \in 1..Len(log) :
        i < j => log[i].id # log[j].id /\ log[i].id[2] < log[j].id[2]

\* C22: no two messages have the same id, within the log of an instance and
\* across the instances that share the module counter, whatever the
\* interleaving; along a log the counters of the ids grow strictly, and none
\* exceeds the module counter, so that every later id carries a larger one.
C22_IdsDistinct ==
    /\ Increasing(messages)
    /\ Increasing(otherMessages)
    /\ \A i \in 1..Len(messages) : \A j \in 1..Len(otherMessages) :
          messages[i].id # otherMessages[j].id
    /\ \A i \in 1..Len(messages) : messages[i].id[2] <= messageIdCounter
    /\ \A j \in 1..Len(otherMessages) : otherMessages[j].id[2] <= messageIdCounter

\* two overlapping calls have completed within one clock value while the
\* second instance made a message at that same clock value
C22_Witness ==
    /\ Len(messages) = 4
    /\ messages[1].role = "user" /\ messages[2].role = "user"
    /\ \A i \in 1..4 : messages[i].id[3] = messages[1].id[3]
    /\ \E j \in 1..Len(otherMessages) :
          /\ otherMessages[j].id[3] = messages[1].id[3]
          /\ otherMessages[j].id[2] < messages[4].id[2]
          /\ otherMessages[j].id[2] > messages[1].id[2]

\* C28: the token, user and org in memory equal what is persisted under
\* access_token, user and org, and whenever the token is null so are user and
\* org, in memory and in storage.  (Stated for the states in which storage
\* holds no token that a login page stored outside AuthProvider.)
C28_AuthMatchesStorage ==
    ~attempt.temp =>
        /\ token = localStorage.access_token
        /\ user = getStoredValue("user")
        /\ org = getStoredValue("org")
        /\ token = NULL =>
              /\ user = Null /\ org = Null
              /\ localStorage.user = NULL /\ localStorage.org = NULL

\* C29: a login attempt that has failed leaves no access token persisted (so
\* that a reload starts unauthenticated), and a token is persisted only
\* together with the user and org records of a successful login.
C29_FailedLoginPersistsNothing ==
    /\ (attempt.pc = "idle" /\ attempt.outcome = "failed" /\ attempt.clean) =>
          localStorage.access_token = NULL /\ token = NULL
    /\ localStorage.access_token # NULL =>
          localStorage.user # NULL /\ localStorage.org # NULL

\* C30: once no detail request is in flight, the displayed employeeDetail is
\* null or the record of the selected employee.
C30_DetailOfSelectedEmployee ==
    (\A f \in 1..Len(fetches) : fetches[f].pc # "get") =>
        \/ employeeDetail = Null
        \/ <<employeeDetail.id>> = selectedEmployeeId

=============================================================================
